---- MODULE Spec2Model ----
(***************************************************************************)
(* bytefreezer-proxy: the ingest - batch - forward - spool pipeline.       *)
(*                                                                         *)
(*   udp/listener.go      Listener (one reader loop per port), the         *)
(*                        listener-to-batcher channel, Forwarder.Start     *)
(*                        (the batcher loop), Forwarder.sendBatch          *)
(*   services/forwarder.go HTTPForwarder.ForwardBatch (retry loop),        *)
(*                        SpoolingService.SpoolData                        *)
(*                                                                         *)
(* Spec     the program: listeners, batcher, timer, shutdown by Stop.      *)
(* SpecUnit the same, with a caller of Forwarder.Start that closes the     *)
(*          ingress channel instead of the quit channel.                   *)
(* SpecFwd  one ForwardBatch call, one HTTP attempt per step.              *)
(* SpecStats the listeners' updates of the shared counters, load and store *)
(*          of every ++ being separate steps.                              *)
(* SpecSpool SpoolingService at the level of its files: SpoolData, the     *)
(*          retry worker and the cleanup worker.                           *)
(***************************************************************************)
EXTENDS Integers, Sequences, FiniteSets, TLC

(***************************************************************************)
(* Configuration (config.Config).  The values are small so that every      *)
(* trigger is reached with a handful of datagrams.                         *)
(***************************************************************************)
\* cfg.UDP.Listeners: three ports.  The first two have identifiers that
\* contain ':'; the third leaves tenant_id empty and takes the global one.
UDPListenersCfg ==
    << [TenantID |-> "a",   DatasetID |-> "b:c"],
       [TenantID |-> "a:b", DatasetID |-> "c"],
       [TenantID |-> "",    DatasetID |-> "d"] >>

GlobalTenantID == "t"

MaxBatchLines == 2          \* cfg.UDP.MaxBatchLines
MaxBatchBytes == 3          \* cfg.UDP.MaxBatchBytes
BatchTimeout  == 2          \* cfg.GetBatchTimeout(), in clock ticks
RetryCount    == 2          \* cfg.Receiver.RetryCount
MaxSizeBytes  == 5          \* cfg.Spooling.MaxSizeBytes
ChanCap       == 1          \* capacity of batchChannel (1000 in NewListener)

MaxDatagrams  == 3          \* datagrams read by all listeners together

MaxAttempts   == 2          \* cfg.Spooling.RetryAttempts
MaxRecords    == 2          \* SpoolData calls made (SpecSpool)
MaxFaults     == 1          \* file operations that fail (SpecSpool)
MaxDataLen    == 3          \* bytes of a datagram (SpecSanitize)
PoolReaders   == 2          \* reader loops (SpecPool)
MaxBuffers    == 2          \* buffers the pool's New makes (SpecPool)
MaxReads      == 4          \* ReadFromUDP calls (SpecPool)
PoolChanCap   == 1          \* capacity of the channel (SpecPool)
BodyLen       == 2          \* bytes of batch.Data (SpecFwd)
MainDatagrams == 1          \* datagrams read before Listener.Stop (SpecMain,
                            \* SpecStart)


\* Payload lengths of the datagrams (after sanitisation, so never 0).
PayloadSizes == {1, 3}

Listeners == DOMAIN UDPListenersCfg

VARIABLES
    lpc,          \* lpc[l]: listener l's reader loop: "loop" (reading), "got"
                  \* (a datagram read and not yet processed), "done" (returned)
    nread,        \* datagrams read so far
    chan,         \* batchChannel: buffered messages, oldest first
    chanClosed,   \* the ingress channel was closed by the caller of Start
    nextId,       \* enqueue sequence number given to the next message
    lquit,        \* Listener.quit closed, sockets closed
    fquit,        \* Forwarder.quit closed
    stats,        \* domain.ProxyStats counters
    batches,      \* Forwarder.Start's map: batch key -> open batch
    bpc,          \* position of the batcher goroutine
    bctx,         \* the select case being served and the batches it still sends
    timerLeft,    \* batchTimer: clock ticks until it fires (0: it is due)
    mutex,        \* SpoolingService.mutex: "free" or its holder
    currentSize,  \* SpoolingService.currentSize
    spoolEnabled, \* cfg.Spooling.Enabled
    spool,        \* records in the spool directory
    sealed,       \* history: key and message ids of every batch given to
                  \* sendBatch, in call order
    lastSend,     \* the latest sendBatch call: its batch and what became of it
    fwd           \* one ForwardBatch call (SpecFwd)

\* The shared counters as the listener goroutines update them (SpecStats).
VARIABLES
    reg,          \* reg[l]: where listener l is inside
                  \* processMessageWithContext and the counter value it loaded
    enqBytes      \* history: payload bytes of the messages enqueued

\* The spool directory and the goroutines working on it (SpecSpool).
VARIABLES
    dataFiles,    \* payload files: record id -> [Size, Whole]
    metaFiles,    \* meta files: record id -> SpooledFile as stored
    alerts,       \* alerts[id]: "max retries reached" alerts sent for id
    forwards,     \* history: forwards[id]: ForwardBatch calls of the retry
                  \* worker for record id
    given,        \* history: given[id]: what SpoolData was called with
                  \* when it wrote record id
    sd,           \* the goroutine calling SpoolData
    rw,           \* the retry worker (processRetries)
    faults,       \* file operations that have failed so far
    trail         \* history: the latest changes of currentSize

\* History of the batches given to sendBatch, by what became of them.
VARIABLES
    ledger        \* ledger.forwarded: total_bytes of the batches forwarded;
                  \* ledger.dropped: total_bytes of the batches that failed
                  \* and were not spooled

\* main after the shutdown signal (SpecMain).
VARIABLES
    sup           \* sup.pc: main is "running", "signalled" (past <-sigChan)
                  \* or "exited"; sup.spool: SpoolingService.shutdown is
                  \* closed; sup.api: the API server has stopped;
                  \* sup.report: what main logged on its way out

\* Listener.Start (SpecStart).
VARIABLES
    start         \* start.pc: where Listener.Start is; start.i: the port it
                  \* is at; start.failed: ports whose SetReadBuffer failed;
                  \* start.result: what Start returned

\* One datagram in processMessageWithContext (SpecSanitize).
VARIABLES
    san           \* san.data: the datagram; san.payload: its payload after
                  \* the clean-up; san.msg: a Message was created;
                  \* san.again: the clean-up applied to the payload

statsExt == << reg, enqBytes >>
\* The buffer pool and the reader loops that use it (SpecPool).
VARIABLES
    bp            \* bp.pc[r]: where reader r is; bp.held[r]: its buffer (0:
                  \* none); bp.free: the buffers in the pool; bp.made: the
                  \* buffers New has made; bp.content[b]: the bytes of b up
                  \* to readLen; bp.uses[b]: the reads into b; bp.got[r],
                  \* bp.put[r]: r's Get and Put calls; bp.queue: the
                  \* Messages in the channel; bp.reads: ReadFromUDP calls;
                  \* bp.quit: Stop has closed quit and the sockets

pipeExt  == << ledger, sup, start, san, bp >>
spoolExt == << dataFiles, metaFiles, alerts, forwards, given, sd, rw, faults, trail >>
extVars  == << statsExt, spoolExt, pipeExt >>

vars == << lpc, nread, chan, chanClosed, nextId, lquit, fquit, stats,
           batches, bpc, bctx, timerLeft, mutex, currentSize,
           spoolEnabled, spool, sealed, lastSend, fwd, extVars >>

listenerVars == << lpc, nread >>
batcherVars  == << batches, bpc, bctx, timerLeft >>
spoolVars    == << mutex, currentSize, spool >>

(***************************************************************************)
(* NewListener: the tenant of a port defaults to the global tenant.        *)
(***************************************************************************)
PortTenant(l) ==
    IF UDPListenersCfg[l].TenantID = "" THEN GlobalTenantID
    ELSE UDPListenersCfg[l].TenantID

PortDataset(l) == UDPListenersCfg[l].DatasetID

\* What SpoolData is called with (SpecSpool): tenant and dataset of a
\* batch and its encoded body, a sequence of bytes.
SpoolInputs ==
    { [TenantID |-> PortTenant(1), DatasetID |-> PortDataset(1),
       Data |-> << 7, 7 >>],
      [TenantID |-> PortTenant(2), DatasetID |-> PortDataset(2),
       Data |-> << 8, 8, 8, 8 >>] }

\* Lengths of the payloads given to SpoolData (SpecSpool).
SpoolSizes == { Len(input.Data) : input \in SpoolInputs }

\* The (tenant_id, dataset_id) pairs of the configuration.
Keys == { << PortTenant(l), PortDataset(l) >> : l \in Listeners }

(***************************************************************************)
(* HTTPForwarder.ForwardBatch: the retry loop.                             *)
(* A response is a transport error or an HTTP status.                      *)
(***************************************************************************)
TransportError == [err |-> TRUE, status |-> 0]
Status(s) == [err |-> FALSE, status |-> s]

Responses == { TransportError } \cup
             { Status(s) : s \in {200, 299, 300, 400, 499, 500, 503} }

\* body is what is left to read of the request's body reader, offered the
\* body each attempt so far had to send.
FwdIdle == [pc |-> "idle", attempt |-> 0, log |-> << >>, lastErr |-> << >>,
            body |-> 0, offered |-> << >>]

\* resp.StatusCode >= 200 && resp.StatusCode < 300
IsSuccess(r) == r.status >= 200 /\ r.status < 300

\* A variant that lets a 400 through to the next attempt (rejected by C4).
IsClientErrorAbove400(r) == r.status > 400 /\ r.status < 500

\* resp.StatusCode >= 400 && resp.StatusCode < 500
IsClientError(r) == r.status >= 400 /\ r.status < 500

\* A variant that makes one attempt fewer (rejected by C3).
LoopCondOneShort(attempt) == attempt < RetryCount

\* for attempt := 0; attempt <= f.config.Receiver.RetryCount; attempt++
LoopCond(attempt) == attempt <= RetryCount

\* One iteration of the loop body, the HTTP attempt answering r.
\* lastErr holds the last observed error (empty: none yet).
Attempt(st, r) ==
    LET logged == [st EXCEPT !.log = Append(@, r)] IN
    IF r.err
    THEN [logged EXCEPT !.lastErr = << r >>, !.attempt = @ + 1]     \* continue
    ELSE IF IsSuccess(r)
    THEN [logged EXCEPT !.pc = "ok"]                                 \* return nil
    ELSE IF IsClientError(r)
    THEN [logged EXCEPT !.lastErr = << r >>, !.pc = "fail"]         \* break
    ELSE [logged EXCEPT !.lastErr = << r >>, !.attempt = @ + 1]

\* The loop condition fails: return the error that wraps lastErr.
Exhausted(st) == [st EXCEPT !.pc = "fail"]

\* The whole call, the i-th attempt answered by script[i].
RECURSIVE ForwardBatchRun(_, _)
ForwardBatchRun(st, script) ==
    IF st.pc # "loop" THEN st
    ELSE IF ~LoopCond(st.attempt) THEN Exhausted(st)
    ELSE ForwardBatchRun(Attempt(st, script[st.attempt + 1]), script)

ForwardBatch(script) ==
    ForwardBatchRun([FwdIdle EXCEPT !.pc = "loop"], script)

(***************************************************************************)
(* Forwarder.Start: the batcher's helpers.                                 *)
(***************************************************************************)
\* batchKey := fmt.Sprintf("%s:%s", msg.TenantID, msg.DatasetID)
BatchKey(tenantID, datasetID) == tenantID \o ":" \o datasetID

\* The batch created for a message whose key has no open batch.  Age is the
\* number of clock ticks since CreatedAt.
NewBatch(msg) ==
    [TenantID |-> msg.TenantID, DatasetID |-> msg.DatasetID,
     Messages |-> << >>, LineCount |-> 0, TotalBytes |-> 0,
     Age |-> 0]

\* A variant that puts the message in front (rejected by C10).
AddMessageInFront(batch, msg) ==
    [batch EXCEPT !.Messages = <<msg>> \o @,
                  !.LineCount = @ + 1,
                  !.TotalBytes = @ + msg.size]

\* batch.Messages = append(...); batch.LineCount++; batch.TotalBytes += len
AddMessage(batch, msg) ==
    [batch EXCEPT !.Messages = Append(@, msg),
                  !.LineCount = @ + 1,
                  !.TotalBytes = @ + msg.size]

\* Variants that fire one message, or one byte, late (rejected by C6, C7).
LineTriggerLate(batch) == MaxBatchLines > 0 /\ batch.LineCount > MaxBatchLines
ByteTriggerLate(batch) == MaxBatchBytes > 0 /\ batch.TotalBytes > MaxBatchBytes

LineTrigger(batch) == MaxBatchLines > 0 /\ batch.LineCount >= MaxBatchLines
ByteTrigger(batch) == MaxBatchBytes > 0 /\ batch.TotalBytes >= MaxBatchBytes

\* shouldSend
ShouldSend(batch) == LineTrigger(batch) \/ ByteTrigger(batch)

\* for _, batch := range batches { if len(batch.Messages) > 0 { ... } }
NonEmptyBatches(bs) == { k \in DOMAIN bs : Len(bs[k].Messages) > 0 }

\* delete(batches, batchKey)
DeleteKey(bs, key) == [k \in DOMAIN bs \ {key} |-> bs[k]]

\* batchTimer.Reset(f.config.GetBatchTimeout())
TimerReset == BatchTimeout

(***************************************************************************)
(* Forwarder.sendBatch: the encoding.  A payload is kept as its length,    *)
(* an NDJSON line is the payload and a newline.                            *)
(***************************************************************************)
RECURSIVE EncodedLen(_)
EncodedLen(msgs) ==
    IF msgs = << >> THEN 0
    ELSE Head(msgs).size + 1 + EncodedLen(Tail(msgs))

MsgIds(msgs) == [i \in 1..Len(msgs) |-> msgs[i].id]

Encode(batch) == [lines |-> MsgIds(batch.Messages),
                  len   |-> EncodedLen(batch.Messages)]

\* What each attempt of the forward made by sendBatch is answered with.
PipeResponses == { Status(200), Status(404), Status(503) }
Scripts == [1..(RetryCount + 1) -> PipeResponses]

\* sendToReceiver: what ForwardBatch can return to sendBatch.
SendToReceiver == { ForwardBatch(script).pc : script \in Scripts }

(***************************************************************************)
(* Initial state: NewListener, NewForwarder, NewSpoolingService, and the   *)
(* goroutines Start has launched.                                          *)
(***************************************************************************)
ZeroStats ==
    [UDPMessagesReceived |-> 0, BytesReceived |-> 0, UDPMessageErrors |-> 0,
     ForwardingErrors |-> 0, BatchesForwarded |-> 0, BytesForwarded |-> 0,
     BatchesCreated |-> 0]

NoSend == [n |-> 0, TenantID |-> "", DatasetID |-> "", ids |-> << >>,
           LineCount |-> 0, TotalBytes |-> 0, trigger |-> "none", age |-> 0,
           len |-> 0, result |-> "none", spool |-> "none"]

\* A listener that is outside processMessageWithContext.
RegIdle == [pc |-> "idle", val |-> 0, size |-> 0]

\* No SpoolData call in progress.
NoInput == [TenantID |-> "", DatasetID |-> "", Data |-> << >>]

SdIdle == [pc |-> "idle", id |-> 0, size |-> 0, over |-> FALSE,
           result |-> "none", input |-> NoInput]

\* The retry worker between two ticks.
NoBatch == [ID |-> 0, TenantID |-> "", DatasetID |-> "", Data |-> << >>]

RwIdle == [pc |-> "idle", files |-> << >>, todo |-> {}, cur |-> 0,
           val |-> 0, outcome |-> << >>, batch |-> NoBatch]

\* No change of currentSize yet.
NoTrail == << >>

SupRunning == [pc |-> "running", spool |-> FALSE, api |-> FALSE,
               report |-> "none"]

\* Listener.Start has started every reader loop and the batcher and has
\* returned nil.
StartReturned == [pc |-> "returned", i |-> 0, failed |-> {}, result |-> "nil"]

\* Listener.Start is at its first port.
StartNew == [pc |-> "listen", i |-> 1, failed |-> {}, result |-> "none"]

NoDatagram == [pc |-> "none", data |-> << >>, payload |-> << >>,
               msg |-> FALSE, again |-> << >>]

Readers == 1..PoolReaders
Buffers == 1..MaxBuffers

\* The pool of NewListener, lines 524-528: empty, New makes the buffers.
PoolNew ==
    [pc |-> [r \in Readers |-> "top"], held |-> [r \in Readers |-> 0],
     free |-> {}, made |-> 0, content |-> [b \in Buffers |-> << >>],
     uses |-> [b \in Buffers |-> 0], got |-> [r \in Readers |-> 0],
     put |-> [r \in Readers |-> 0], queue |-> << >>, reads |-> 0,
     quit |-> FALSE]

ExtRest ==
    /\ bp = PoolNew
    /\ sup = SupRunning
    /\ ledger = [forwarded |-> 0, dropped |-> 0]
    /\ reg = [l \in Listeners |-> RegIdle]
    /\ enqBytes = 0
    /\ dataFiles = << >>
    /\ metaFiles = << >>
    /\ alerts = [id \in 1..MaxRecords |-> 0]
    /\ forwards = [id \in 1..MaxRecords |-> 0]
    /\ given = << >>
    /\ sd = SdIdle
    /\ rw = RwIdle
    /\ faults = 0
    /\ trail = NoTrail

ExtInit ==
    /\ start = StartReturned
    /\ san = NoDatagram
    /\ ExtRest

\* The state after construction, with cfg.Spooling.Enabled = enabled.
InitCfg(enabled) ==
    /\ lpc = [l \in Listeners |-> "loop"]
    /\ nread = 0
    /\ chan = << >>
    /\ chanClosed = FALSE
    /\ nextId = 1
    /\ lquit = FALSE
    /\ fquit = FALSE
    /\ stats = ZeroStats
    /\ batches = << >>
    /\ bpc = "select"
    /\ bctx = [kind |-> "none", todo |-> {}]
    /\ timerLeft = BatchTimeout
    /\ mutex = "free"
    /\ currentSize = 0
    /\ spoolEnabled = enabled
    /\ spool = {}
    /\ sealed = << >>
    /\ lastSend = NoSend
    /\ fwd = FwdIdle
    /\ ExtInit

\* Spooling enabled (the deployed configuration).
Init == InitCfg(TRUE)

\* Spooling disabled.
InitNoSpool == InitCfg(FALSE)

(***************************************************************************)
(* Listener.handleMessagesForPort and processMessageWithContext.           *)
(***************************************************************************)
\* A variant that sends on a full channel (rejected by C12).
ChannelHasRoomAtCap == Len(chan) <= ChanCap

\* select { case l.batchChannel <- msg: ... default: ... }
ChannelHasRoom == Len(chan) < ChanCap

\* processMessageWithContext for a datagram of listener l whose sanitised
\* payload has `size` bytes: lines 662-682.
Process(l, size) ==
    LET msg == [id |-> nextId, TenantID |-> PortTenant(l),
                DatasetID |-> PortDataset(l), size |-> size] IN
    IF ChannelHasRoom
    THEN /\ chan' = Append(chan, msg)
         /\ nextId' = nextId + 1
         /\ stats' = [stats EXCEPT !.UDPMessagesReceived = @ + 1,
                                   !.BytesReceived = @ + msg.size]
    ELSE /\ stats' = [stats EXCEPT !.UDPMessageErrors = @ + 1]
         /\ UNCHANGED << chan, nextId >>

\* One turn of the reader loop while quit is open: read a datagram and
\* process it.  (The read touches nothing shared, so the turn is one step.)
ListenerReceive(l) ==
    /\ lpc[l] = "loop"
    /\ ~lquit
    /\ nread < MaxDatagrams
    /\ nread' = nread + 1
    /\ \E size \in PayloadSizes : Process(l, size)
    /\ UNCHANGED << lpc, chanClosed, lquit, fquit, batcherVars, spoolVars,
                    spoolEnabled, sealed, lastSend, fwd, extVars >>

\* A listener that had read a datagram when Stop closed its socket still
\* processes it, then finds quit closed at the top of the loop and returns.
ListenerProcess(l) ==
    /\ lpc[l] = "got"
    /\ \E size \in PayloadSizes : Process(l, size)
    /\ lpc' = [lpc EXCEPT ![l] = "done"]
    /\ UNCHANGED << nread, chanClosed, lquit, fquit, batcherVars, spoolVars,
                    spoolEnabled, sealed, lastSend, fwd, extVars >>

(***************************************************************************)
(* Listener.Stop: close(l.quit) and the sockets, then Forwarder.Stop.      *)
(***************************************************************************)
\* close(l.quit) and conn.Close() for every port.  A listener blocked in
\* ReadFromUDP returns on the closed socket; one that is past its read
\* ("got") has a datagram left to process.
StopListeners ==
    /\ ~lquit
    /\ lquit' = TRUE
    /\ \E inflight \in SUBSET Listeners :
          /\ nread + Cardinality(inflight) <= MaxDatagrams
          /\ nread' = nread + Cardinality(inflight)
          /\ lpc' = [l \in Listeners |->
                        IF l \in inflight THEN "got" ELSE "done"]
    /\ UNCHANGED << chan, chanClosed, nextId, fquit, stats, batcherVars,
                    spoolVars, spoolEnabled, sealed, lastSend, fwd, extVars >>

\* Forwarder.Stop: close(f.quit)
StopForwarder ==
    /\ lquit
    /\ ~fquit
    /\ ~chanClosed
    /\ fquit' = TRUE
    /\ UNCHANGED << listenerVars, chan, chanClosed, nextId, lquit, stats,
                    batcherVars, spoolVars, spoolEnabled, sealed, lastSend, fwd, extVars >>

(***************************************************************************)
(* Forwarder.Start: the batcher loop.  bpc = "select" is the select        *)
(* statement; Go picks any ready case.                                     *)
(***************************************************************************)
\* The record of a sendBatch call.
SendRecord(batch, kind, result, outcome) ==
    [n |-> Len(sealed) + 1,
     TenantID |-> batch.TenantID, DatasetID |-> batch.DatasetID,
     ids |-> MsgIds(batch.Messages), LineCount |-> batch.LineCount,
     TotalBytes |-> batch.TotalBytes, trigger |-> kind, age |-> batch.Age,
     len |-> EncodedLen(batch.Messages), result |-> result, spool |-> outcome]

SealedEntry(batch) ==
    [TenantID |-> batch.TenantID, DatasetID |-> batch.DatasetID,
     ids |-> MsgIds(batch.Messages)]

\* What follows a sendBatch call of the case being served: the batch is
\* deleted from the map (size and timer cases), and after the last call the
\* timer is reset (size and timer cases) or the loop returns (quit, closed).
AfterSend(key) ==
    LET todo == bctx.todo \ {key} IN
    /\ bctx' = [bctx EXCEPT !.todo = todo]
    /\ batches' = IF bctx.kind \in {"size", "timer"}
                  THEN DeleteKey(batches, key) ELSE batches
    /\ IF todo # {}
       THEN bpc' = "send" /\ UNCHANGED timerLeft
       ELSE IF bctx.kind \in {"size", "timer"}
       THEN bpc' = "select" /\ timerLeft' = TimerReset
       ELSE bpc' = "done" /\ UNCHANGED timerLeft

\* case msg, ok := <-messageChannel (ok): lines 758-795
BatcherRecv ==
    /\ bpc = "select"
    /\ chan # << >>
    /\ LET msg   == Head(chan)
           key   == BatchKey(msg.TenantID, msg.DatasetID)
           batch == AddMessage(IF key \in DOMAIN batches THEN batches[key]
                               ELSE NewBatch(msg), msg)
       IN /\ chan' = Tail(chan)
          /\ batches' = [k \in DOMAIN batches \cup {key} |->
                            IF k = key THEN batch ELSE batches[k]]
          /\ IF ShouldSend(batch)
             THEN bpc' = "send" /\ bctx' = [kind |-> "size", todo |-> {key}]
             ELSE UNCHANGED << bpc, bctx >>
    /\ UNCHANGED << listenerVars, chanClosed, nextId, lquit, fquit, stats,
                    timerLeft, spoolVars, spoolEnabled, sealed, lastSend, fwd, extVars >>

\* A case that sends every non-empty open batch.
ServeAll(kind, after) ==
    /\ IF NonEmptyBatches(batches) # {}
       THEN /\ bpc' = "send"
            /\ bctx' = [kind |-> kind, todo |-> NonEmptyBatches(batches)]
            /\ UNCHANGED timerLeft
       ELSE /\ bpc' = after
            /\ timerLeft' = IF after = "select" THEN TimerReset ELSE timerLeft
            /\ UNCHANGED bctx
    /\ UNCHANGED << listenerVars, chan, chanClosed, nextId, lquit, fquit, stats,
                    batches, spoolVars, spoolEnabled, sealed, lastSend, fwd, extVars >>

\* case <-batchTimer.C: lines 797-807
TimerDue == timerLeft = 0

BatcherTimer ==
    /\ bpc = "select"
    /\ TimerDue
    /\ ServeAll("timer", "select")

\* case <-f.quit: lines 738-745
BatcherQuit ==
    /\ bpc = "select"
    /\ fquit
    /\ ServeAll("quit", "done")

\* case msg, ok := <-messageChannel (!ok): lines 748-756.  A closed channel
\* first delivers what it still buffers.
BatcherChanClosed ==
    /\ bpc = "select"
    /\ chanClosed
    /\ chan = << >>
    /\ ServeAll("closed", "done")

(***************************************************************************)
(* SpoolingService.SpoolData, as sendBatch calls it.                       *)
(***************************************************************************)
\* The size check, lines 213-225.
OverBudget(dataSize) == currentSize + dataSize > MaxSizeBytes

\* The record SpoolData writes, lines 239-250.
SpoolRecord(batch, data) ==
    [ID |-> Len(sealed) + 1, TenantID |-> batch.TenantID,
     DatasetID |-> batch.DatasetID, Size |-> data.len, data |-> data,
     RetryCount |-> 0, Status |-> "pending"]

\* SpoolData(batch.TenantID, batch.DatasetID, finalData, ...).  It yields
\* `outcome`:
\*   "disabled"     spooling is off: return nil, nothing is written
\*   "stored"       both files written, currentSize raised
\*   "write_error"  a file could not be written: no file is left, error
\*   "blocked"      over budget: SpoolData, holding the mutex, calls
\*                  cleanupOldFiles, whose first statement (line 394) locks
\*                  the same mutex.  sync.RWMutex is not reentrant: the call
\*                  never returns.
SpoolData(batch, data, outcome) ==
    IF ~spoolEnabled
    THEN outcome = "disabled" /\ UNCHANGED spoolVars
    ELSE /\ mutex = "free"
         /\ IF OverBudget(data.len)
            THEN /\ outcome = "blocked"
                 /\ mutex' = "SpoolData"
                 /\ UNCHANGED << currentSize, spool >>
            ELSE \/ /\ outcome = "stored"
                    /\ spool' = spool \cup {SpoolRecord(batch, data)}
                    /\ currentSize' = currentSize + data.len
                    /\ UNCHANGED mutex
                 \/ /\ outcome = "write_error"
                    /\ UNCHANGED spoolVars

SpoolOutcomes == {"disabled", "stored", "write_error", "blocked"}

(***************************************************************************)
(* Forwarder.sendBatch: encode, forward, and on failure spool.             *)
(***************************************************************************)
SendBatch(key) ==
    /\ bpc = "send"
    /\ key \in bctx.todo
    /\ LET batch == batches[key]
           data  == Encode(batch) IN
       /\ sealed' = Append(sealed, SealedEntry(batch))
       /\ \E result \in SendToReceiver :
          IF result = "ok"
          THEN /\ stats' = [stats EXCEPT !.BatchesForwarded = @ + 1,
                                         !.BytesForwarded = @ + data.len,
                                         !.BatchesCreated = @ + 1]
               /\ lastSend' = SendRecord(batch, bctx.kind, "ok", "none")
               /\ ledger' = [ledger EXCEPT !.forwarded = @ + batch.TotalBytes]
               /\ AfterSend(key)
               /\ UNCHANGED spoolVars
          ELSE \E outcome \in SpoolOutcomes :
               /\ SpoolData(batch, data, outcome)
               /\ lastSend' = SendRecord(batch, bctx.kind, "fail", outcome)
               /\ ledger' = IF outcome \in {"disabled", "write_error"}
                            THEN [ledger EXCEPT !.dropped = @ + batch.TotalBytes]
                            ELSE ledger
               /\ IF outcome = "blocked"
                  THEN /\ stats' = [stats EXCEPT !.ForwardingErrors = @ + 1]
                       /\ bpc' = "cleanup_lock"
                       /\ UNCHANGED << bctx, batches, timerLeft >>
                  ELSE /\ stats' = [stats EXCEPT !.ForwardingErrors = @ + 1,
                                                 !.BatchesCreated = @ + 1]
                       /\ AfterSend(key)
    /\ UNCHANGED << listenerVars, chan, chanClosed, nextId, lquit, fquit,
                    spoolEnabled, fwd, statsExt, spoolExt, sup, start, san, bp >>

(***************************************************************************)
(* The clock, kept as the time left on the timer and the age of each open  *)
(* batch.  The batcher is taken to be prompt: time does not pass while it  *)
(* is inside a case, nor while the timer is due.  Once the batcher has     *)
(* stopped nothing depends on the time any more.                           *)
(***************************************************************************)
Tick ==
    /\ bpc = "select"
    /\ ~TimerDue
    /\ timerLeft' = timerLeft - 1
    /\ batches' = [k \in DOMAIN batches |-> [batches[k] EXCEPT !.Age = @ + 1]]
    /\ UNCHANGED << listenerVars, chan, chanClosed, nextId, lquit, fquit, stats,
                    bpc, bctx, spoolVars, spoolEnabled, sealed, lastSend, fwd, extVars >>

Next ==
    \/ \E l \in Listeners : ListenerReceive(l)
    \/ \E l \in Listeners : ListenerProcess(l)
    \/ StopListeners
    \/ StopForwarder
    \/ BatcherRecv
    \/ BatcherTimer
    \/ BatcherQuit
    \/ \E key \in DOMAIN batches : SendBatch(key)
    \/ Tick

Spec == Init /\ [][Next]_vars

SpecNoSpool == InitNoSpool /\ [][Next]_vars

(***************************************************************************)
(* SpecUnit: Forwarder.Start driven by a caller that may also stop it by   *)
(* closing the ingress channel, once no listener can send on it any more.  *)
(***************************************************************************)
CloseChannel ==
    /\ lquit
    /\ \A l \in Listeners : lpc[l] = "done"
    /\ ~fquit
    /\ ~chanClosed
    /\ chanClosed' = TRUE
    /\ UNCHANGED << listenerVars, chan, nextId, lquit, fquit, stats,
                    batcherVars, spoolVars, spoolEnabled, sealed, lastSend, fwd, extVars >>

NextUnit ==
    \/ Next
    \/ CloseChannel
    \/ BatcherChanClosed

SpecUnit == Init /\ [][NextUnit]_vars

(***************************************************************************)
(* SpecFwd: one HTTPForwarder.ForwardBatch call, lines 66-99, one HTTP     *)
(* attempt per step, answered by any response.                             *)
(***************************************************************************)
pipeVars == << lpc, nread, chan, chanClosed, nextId, lquit, fquit, stats,
               batches, bpc, bctx, timerLeft, mutex, currentSize,
               spoolEnabled, spool, sealed, lastSend, extVars >>

\* req, err := http.NewRequest("POST", url, bytes.NewReader(batch.Data)),
\* line 40; var lastErr error; attempt := 0
FwdCall ==
    /\ fwd.pc = "idle"
    /\ fwd' = [fwd EXCEPT !.pc = "loop", !.body = BodyLen]
    /\ UNCHANGED pipeVars

\* f.httpClient.Do(req) and what the loop body does with the answer.  The
\* request is the one made before the loop: the attempt sends what its
\* body reader still holds and reads n bytes of it (none when the
\* connection fails, all of it when the request is written out).
FwdAttempt ==
    /\ fwd.pc = "loop"
    /\ LoopCond(fwd.attempt)
    /\ \E r \in Responses : \E n \in 0..fwd.body :
          fwd' = [Attempt(fwd, r) EXCEPT !.body = @ - n,
                                        !.offered = Append(@, fwd.body)]
    /\ UNCHANGED pipeVars

\* The loop ends by its condition: return the wrapped lastErr.
FwdExhausted ==
    /\ fwd.pc = "loop"
    /\ ~LoopCond(fwd.attempt)
    /\ fwd' = Exhausted(fwd)
    /\ UNCHANGED pipeVars

NextFwd == FwdCall \/ FwdAttempt \/ FwdExhausted

SpecFwd == Init /\ [][NextFwd]_vars

(***************************************************************************)
(* SpecStats: processMessageWithContext, lines 672-682, run by the         *)
(* listener goroutines.  ProxyStats has plain int64 fields and the         *)
(* goroutines share it without a lock or sync/atomic, so every ++ and +=   *)
(* is a load and a store that other goroutines can come between.  The      *)
(* channel send itself is atomic.  The batcher only takes messages off the *)
(* channel here.                                                           *)
(***************************************************************************)
statsPipeVars == << lpc, chanClosed, lquit, fquit, batcherVars, spoolVars,
                    spoolEnabled, sealed, lastSend, fwd, spoolExt, pipeExt >>

\* select { case l.batchChannel <- msg: ... default: ... }, line 673
RacyEnqueue(l) ==
    /\ reg[l].pc = "idle"
    /\ nread < MaxDatagrams
    /\ nread' = nread + 1
    /\ \E size \in PayloadSizes :
          IF ChannelHasRoom
          THEN /\ chan' = Append(chan, [id |-> nextId, TenantID |-> PortTenant(l),
                                        DatasetID |-> PortDataset(l), size |-> size])
               /\ nextId' = nextId + 1
               /\ enqBytes' = enqBytes + size
               /\ reg' = [reg EXCEPT ![l] = [pc |-> "load_recv", val |-> 0,
                                             size |-> size]]
          ELSE /\ reg' = [reg EXCEPT ![l] = [pc |-> "load_err", val |-> 0,
                                             size |-> size]]
               /\ UNCHANGED << chan, nextId, enqBytes >>
    /\ UNCHANGED << stats, statsPipeVars >>

\* The counter a listener at pc is about to update.
CounterAt(pc) ==
    CASE pc \in {"load_recv", "store_recv"}   -> "UDPMessagesReceived"
      [] pc \in {"load_bytes", "store_bytes"} -> "BytesReceived"
      [] OTHER                                -> "UDPMessageErrors"

\* The load half of ++ / +=.
RacyLoad(l) ==
    /\ reg[l].pc \in {"load_recv", "load_bytes", "load_err"}
    /\ reg' = [reg EXCEPT ![l].val = stats[CounterAt(reg[l].pc)],
                          ![l].pc = CASE reg[l].pc = "load_recv"  -> "store_recv"
                                      [] reg[l].pc = "load_bytes" -> "store_bytes"
                                      [] OTHER                    -> "store_err"]
    /\ UNCHANGED << nread, chan, nextId, enqBytes, stats, statsPipeVars >>

\* The store half: lines 675, 676 and 681.
RacyStore(l) ==
    /\ reg[l].pc \in {"store_recv", "store_bytes", "store_err"}
    /\ stats' = [stats EXCEPT ![CounterAt(reg[l].pc)] =
                     reg[l].val + (IF reg[l].pc = "store_bytes"
                                   THEN reg[l].size ELSE 1)]
    /\ reg' = [reg EXCEPT ![l] = IF reg[l].pc = "store_recv"
                                 THEN [@ EXCEPT !.pc = "load_bytes"]
                                 ELSE RegIdle]
    /\ UNCHANGED << nread, chan, nextId, enqBytes, statsPipeVars >>

\* case msg, ok := <-messageChannel, line 747
RacyDrain ==
    /\ chan # << >>
    /\ chan' = Tail(chan)
    /\ UNCHANGED << nread, nextId, enqBytes, stats, reg, statsPipeVars >>

NextStats ==
    \/ \E l \in Listeners : RacyEnqueue(l)
    \/ \E l \in Listeners : RacyLoad(l)
    \/ \E l \in Listeners : RacyStore(l)
    \/ RacyDrain

SpecStats == Init /\ [][NextStats]_vars

(***************************************************************************)
(* SpecSpool: SpoolingService at the level of its files.  A record is a    *)
(* payload file <id>.ndjson and a meta file <id>.meta.  Three goroutines   *)
(* work on the directory: the caller of SpoolData, the retry worker        *)
(* (processRetries, which takes no lock) and the cleanup worker            *)
(* (cleanupOldFiles, under s.mutex).                                       *)
(*                                                                         *)
(* Time is kept per record as two flags of its meta: Due, for              *)
(* time.Since(LastRetry) >= retryInterval, and Old, for                    *)
(* time.Since(CreatedAt) > retryAttempts * retryInterval * 2.  A step (an  *)
(* HTTP forward with its retries and timeouts) can take any time.          *)
(***************************************************************************)
Restrict(f, S) == [k \in S |-> f[k]]
Put(f, k, v) == [x \in DOMAIN f \cup {k} |-> IF x = k THEN v ELSE f[x]]

\* A variant that records a size one byte too large (rejected by C16).
NewMetaOneMore(id, input) ==
    [Readable |-> TRUE, ID |-> id, TenantID |-> input.TenantID,
     DatasetID |-> input.DatasetID, Size |-> Len(input.Data) + 1,
     RetryCount |-> 0, Status |-> "pending", Due |-> TRUE, Old |-> FALSE]

\* The meta SpoolData writes, lines 239-250.  LastRetry is the zero time,
\* so the record is due at once.
NewMeta(id, input) ==
    [Readable |-> TRUE, ID |-> id, TenantID |-> input.TenantID,
     DatasetID |-> input.DatasetID, Size |-> Len(input.Data),
     RetryCount |-> 0, Status |-> "pending", Due |-> TRUE, Old |-> FALSE]

\* A meta file whose write failed after os.WriteFile had created or
\* truncated it: json.Unmarshal fails on it and getSpooledFiles skips it.
BrokenMeta(id) ==
    [Readable |-> FALSE, ID |-> id, TenantID |-> "", DatasetID |-> "",
     Size |-> 0, RetryCount |-> 0, Status |-> "", Due |-> FALSE,
     Old |-> FALSE]

\* os.WriteFile(path, ...): it succeeds, or it fails before the file is
\* opened ("untouched"), or after it was created or truncated ("partial").
WriteOutcomes ==
    {"ok"} \cup (IF faults < MaxFaults THEN {"untouched", "partial"} ELSE {})

\* The latest two changes of currentSize.
Logged(op, id, before, after) ==
    LET e == [op |-> op, id |-> id, before |-> before, after |-> after] IN
    IF trail = << >> THEN << e >> ELSE << trail[Len(trail)], e >>

spoolPipeVars == << lpc, nread, chan, chanClosed, nextId, lquit, fquit, stats,
                    batcherVars, spoolEnabled, spool, sealed, lastSend, fwd,
                    statsExt, pipeExt >>

\* SpoolData(tenantID, datasetID, data, failureReason): s.mutex.Lock(),
\* line 209.
SdLock ==
    /\ sd.pc = "idle"
    /\ sd.id < MaxRecords
    /\ spoolEnabled
    /\ mutex = "free"
    /\ mutex' = "SpoolData"
    /\ \E input \in SpoolInputs :
          /\ sd' = [pc |-> "check", id |-> sd.id + 1,
                    size |-> Len(input.Data), over |-> FALSE,
                    result |-> "none", input |-> input]
          /\ given' = Put(given, sd.id + 1, input)
    /\ UNCHANGED << currentSize, dataFiles, metaFiles, alerts, forwards, rw,
                    faults, trail, spoolPipeVars >>

\* if s.currentSize+dataSize > s.maxSize, line 214: over budget, the call
\* goes on to cleanupOldFiles, still holding the mutex.
SdCheck ==
    /\ sd.pc = "check"
    /\ sd' = IF OverBudget(sd.size)
             THEN [sd EXCEPT !.pc = "cleanup_lock", !.over = TRUE]
             ELSE [sd EXCEPT !.pc = "write_data"]
    /\ UNCHANGED << mutex, currentSize, dataFiles, metaFiles, alerts, forwards, given, rw,
                    faults, trail, spoolPipeVars >>

\* os.WriteFile(filePath, data, 0644), lines 233-236.  On an error the call
\* returns (the deferred Unlock runs); nothing is removed.
SdWriteData ==
    /\ sd.pc = "write_data"
    /\ \E o \in WriteOutcomes :
          IF o = "ok"
          THEN /\ dataFiles' = Put(dataFiles, sd.id,
                                   [Size |-> sd.size, Whole |-> TRUE,
                                    Data |-> sd.input.Data])
               /\ sd' = [sd EXCEPT !.pc = "write_meta"]
               /\ UNCHANGED << mutex, faults >>
          ELSE /\ dataFiles' = IF o = "partial"
                               THEN Put(dataFiles, sd.id,
                                        [Size |-> 0, Whole |-> FALSE,
                                         Data |-> << >>])
                               ELSE dataFiles
               /\ sd' = [sd EXCEPT !.pc = "idle", !.result = "data_error"]
               /\ mutex' = "free"
               /\ faults' = faults + 1
    /\ UNCHANGED << currentSize, metaFiles, alerts, forwards, given, rw, trail, spoolPipeVars >>

\* os.WriteFile(metaFilepath, metaData, 0644), lines 258-262.  On an error
\* os.Remove(filePath) removes the payload file and the call returns.
SdWriteMeta ==
    /\ sd.pc = "write_meta"
    /\ \E o \in WriteOutcomes :
          IF o = "ok"
          THEN /\ metaFiles' = Put(metaFiles, sd.id, NewMeta(sd.id, sd.input))
               /\ sd' = [sd EXCEPT !.pc = "add_size"]
               /\ UNCHANGED << mutex, faults, dataFiles >>
          ELSE /\ metaFiles' = IF o = "partial"
                               THEN Put(metaFiles, sd.id, BrokenMeta(sd.id))
                               ELSE metaFiles
               /\ dataFiles' = Restrict(dataFiles, DOMAIN dataFiles \ {sd.id})
               /\ sd' = [sd EXCEPT !.pc = "idle", !.result = "meta_error"]
               /\ mutex' = "free"
               /\ faults' = faults + 1
    /\ UNCHANGED << currentSize, alerts, forwards, given, rw, trail, spoolPipeVars >>

\* s.currentSize += dataSize, line 266, and the deferred Unlock.
SdAddSize ==
    /\ sd.pc = "add_size"
    /\ currentSize' = currentSize + sd.size
    /\ trail' = Logged("write", sd.id, currentSize, currentSize + sd.size)
    /\ sd' = [sd EXCEPT !.pc = "idle", !.result = "ok"]
    /\ mutex' = "free"
    /\ UNCHANGED << dataFiles, metaFiles, alerts, forwards, given, rw, faults, spoolPipeVars >>

\* getSpooledFiles, lines 428-457: the records whose meta file can be
\* read and parsed.
GetSpooledFiles == { id \in DOMAIN metaFiles : metaFiles[id].Readable }

\* file.RetryCount >= s.retryAttempts || time.Since(file.CreatedAt) > maxAge
Removable(file) == file.RetryCount >= MaxAttempts \/ file.Old

RECURSIVE SumSizes(_, _)
SumSizes(f, S) ==
    IF S = {} THEN 0
    ELSE LET x == CHOOSE x \in S : TRUE IN f[x].Size + SumSizes(f, S \ {x})

\* The history after removeSpooledFile of the records ids, oldest first.
RECURSIVE LoggedRemovals(_, _, _, _)
LoggedRemovals(tr, f, ids, cs) ==
    IF ids = {} THEN tr
    ELSE LET x == CHOOSE x \in ids : \A y \in ids : x <= y
             e == [op |-> "remove", id |-> x, before |-> cs,
                   after |-> cs - f[x].Size]
         IN LoggedRemovals(IF tr = << >> THEN << e >> ELSE << tr[Len(tr)], e >>,
                           f, ids \ {x}, cs - f[x].Size)

\* cleanupOldFiles, lines 393-425, called by the cleanup worker ("cw") or
\* by SpoolData ("sd", line 216).  Its first statement locks s.mutex; the
\* caller "sd" holds that mutex already.  After its own cleanup SpoolData
\* checks the size again (lines 220-224).
CleanupOldFiles(caller) ==
    /\ mutex = "free"
    /\ caller = "sd" => sd.pc = "cleanup_lock"
    /\ LET gone == { id \in GetSpooledFiles : Removable(metaFiles[id]) }
           size == currentSize - SumSizes(metaFiles, gone) IN
       /\ dataFiles' = Restrict(dataFiles, DOMAIN dataFiles \ gone)
       /\ metaFiles' = Restrict(metaFiles, DOMAIN metaFiles \ gone)
       /\ currentSize' = size
       /\ trail' = LoggedRemovals(trail, metaFiles, gone, currentSize)
       /\ IF caller = "sd"
          THEN IF size + sd.size > MaxSizeBytes
               THEN /\ sd' = [sd EXCEPT !.pc = "idle", !.result = "full"]
                    /\ mutex' = "free"
               ELSE /\ sd' = [sd EXCEPT !.pc = "write_data"]
                    /\ mutex' = "SpoolData"
          ELSE UNCHANGED << sd, mutex >>
    /\ UNCHANGED << alerts, forwards, given, rw, faults, spoolPipeVars >>

\* os.WriteFile(metaPath, ...) of updateRetryMetadata and
\* markAsPermanentlyFailed: the meta file of id after outcome o.
MetaWritten(id, meta, o) ==
    CASE o = "ok"      -> Put(metaFiles, id, meta)
      [] o = "partial" -> Put(metaFiles, id, BrokenMeta(id))
      [] OTHER         -> metaFiles

\* updateRetryMetadata, lines 460-476: the meta it writes from its copy.
UpdatedMeta(file) ==
    [file EXCEPT !.RetryCount = @ + 1, !.Status = "retrying", !.Due = FALSE]

\* markAsPermanentlyFailed, lines 500-517.
FailedMeta(file) == [file EXCEPT !.Status = "failed", !.Due = FALSE]

\* A variant that takes the two identifiers in the other order (rejected
\* by C28).
RetryBatchSwapped(file, data) ==
    [ID |-> file.ID, TenantID |-> file.DatasetID,
     DatasetID |-> file.TenantID, Data |-> data]

\* batch := &domain.DataBatch{...}, lines 347-354.
RetryBatch(file, data) ==
    [ID |-> file.ID, TenantID |-> file.TenantID,
     DatasetID |-> file.DatasetID, Data |-> data]

\* A variant that stops retrying one attempt early (rejected by C24).
RetryLimitReachedEarly(file) == file.RetryCount >= MaxAttempts - 1

\* if file.RetryCount >= s.retryAttempts, line 321.
RetryLimitReached(file) == file.RetryCount >= MaxAttempts

\* processRetries: files, err := s.getSpooledFiles(), lines 293-301.
RwSnapshot ==
    /\ rw.pc = "idle"
    /\ GetSpooledFiles # {}
    /\ rw' = [pc |-> "next", files |-> Restrict(metaFiles, GetSpooledFiles),
              todo |-> GetSpooledFiles, cur |-> 0, val |-> 0,
              outcome |-> << >>, batch |-> NoBatch]
    /\ UNCHANGED << mutex, currentSize, dataFiles, metaFiles, alerts, forwards, given, sd,
                    faults, trail, spoolPipeVars >>

\* The loop of processRetries up to the read of the payload, lines 309-343,
\* for the next file of the listing.
RwNext ==
    /\ rw.pc = "next"
    /\ IF rw.todo = {}
       THEN /\ rw' = [rw EXCEPT !.pc = "idle"]
            /\ UNCHANGED << metaFiles, alerts, forwards, given, faults >>
       ELSE LET id   == CHOOSE x \in rw.todo : \A y \in rw.todo : x <= y
                file == rw.files[id]
                step(what, pc) ==
                    [rw EXCEPT !.pc = pc, !.cur = id, !.todo = @ \ {id},
                               !.outcome = Put(@, id, what),
                               !.batch = IF what = "forwarding"
                                         THEN RetryBatch(file, dataFiles[id].Data)
                                         ELSE NoBatch]
            IN CASE file.Status = "failed" ->
                      /\ rw' = step("skip_failed", "next")
                      /\ UNCHANGED << metaFiles, alerts, forwards, given, faults >>
                 [] file.Status # "failed" /\ ~file.Due ->
                      /\ rw' = step("skip_wait", "next")
                      /\ UNCHANGED << metaFiles, alerts, forwards, given, faults >>
                 [] file.Status # "failed" /\ file.Due
                       /\ RetryLimitReached(file) ->
                      /\ alerts' = [alerts EXCEPT ![id] = @ + 1]
                      /\ UNCHANGED << forwards, given >>
                      /\ \E o \in WriteOutcomes :
                            /\ metaFiles' = MetaWritten(id, FailedMeta(file), o)
                            /\ faults' = IF o = "ok" THEN faults ELSE faults + 1
                      /\ rw' = step("marked", "next")
                 [] OTHER ->
                      /\ rw' = IF id \in DOMAIN dataFiles
                               THEN step("forwarding", "forward")
                               ELSE step("read_error", "next")
                      /\ UNCHANGED << metaFiles, alerts, forwards, given, faults >>
    /\ UNCHANGED << mutex, currentSize, dataFiles, sd, trail, spoolPipeVars >>

\* os.Remove in removeSpooledFile, lines 484 and 489: it removes the file
\* (a file that is gone already is no error), or it fails and
\* removeSpooledFile returns.  Its callers ignore the error.
RemoveOutcomes ==
    {"ok"} \cup (IF faults < MaxFaults THEN {"error"} ELSE {})

\* forwarder.ForwardBatch(batch) and what follows it, lines 356-367: on a
\* failure updateRetryMetadata, on success removeSpooledFile, which begins
\* with the removal of the payload file (line 484).
RwForward ==
    /\ rw.pc = "forward"
    /\ LET id == rw.cur
           file == rw.files[id] IN
       \E result \in SendToReceiver :
          IF result = "ok"
          THEN \E o \in RemoveOutcomes :
               /\ dataFiles' = IF o = "ok"
                               THEN Restrict(dataFiles, DOMAIN dataFiles \ {id})
                               ELSE dataFiles
               /\ rw' = [rw EXCEPT !.pc = IF o = "ok" THEN "remove_meta" ELSE "next",
                                   !.outcome = Put(@, id, "fwd_ok")]
               /\ faults' = IF o = "ok" THEN faults ELSE faults + 1
               /\ UNCHANGED metaFiles
          ELSE /\ \E o \in WriteOutcomes :
                     /\ metaFiles' = MetaWritten(id, UpdatedMeta(file), o)
                     /\ faults' = IF o = "ok" THEN faults ELSE faults + 1
               /\ rw' = [rw EXCEPT !.pc = "next",
                                   !.outcome = Put(@, id, "fwd_fail")]
               /\ UNCHANGED dataFiles
    /\ forwards' = [forwards EXCEPT ![rw.cur] = @ + 1]
    /\ UNCHANGED given
    /\ UNCHANGED << mutex, currentSize, alerts, sd, trail, spoolPipeVars >>

\* removeSpooledFile goes on: the removal of the meta file, line 489.
RwRemoveMeta ==
    /\ rw.pc = "remove_meta"
    /\ \E o \in RemoveOutcomes :
          /\ metaFiles' = IF o = "ok"
                          THEN Restrict(metaFiles, DOMAIN metaFiles \ {rw.cur})
                          ELSE metaFiles
          /\ rw' = [rw EXCEPT !.pc = IF o = "ok" THEN "dec_load" ELSE "next"]
          /\ faults' = IF o = "ok" THEN faults ELSE faults + 1
    /\ UNCHANGED << mutex, currentSize, dataFiles, alerts, forwards, given, sd, trail,
                    spoolPipeVars >>

\* s.currentSize -= file.Size, line 494, run without s.mutex: the load ...
RwDecLoad ==
    /\ rw.pc = "dec_load"
    /\ rw' = [rw EXCEPT !.pc = "dec_store", !.val = currentSize]
    /\ UNCHANGED << mutex, currentSize, dataFiles, metaFiles, alerts, forwards, given, sd,
                    faults, trail, spoolPipeVars >>

\* ... and the store.
RwDecStore ==
    /\ rw.pc = "dec_store"
    /\ currentSize' = rw.val - rw.files[rw.cur].Size
    /\ trail' = Logged("remove", rw.cur, rw.val, rw.val - rw.files[rw.cur].Size)
    /\ rw' = [rw EXCEPT !.pc = "next"]
    /\ UNCHANGED << mutex, dataFiles, metaFiles, alerts, forwards, given, sd, faults,
                    spoolPipeVars >>

\* Time passes: retryInterval has gone by since the record's LastRetry.
Elapse(id) ==
    /\ id \in GetSpooledFiles
    /\ ~metaFiles[id].Due
    /\ metaFiles' = [metaFiles EXCEPT ![id].Due = TRUE]
    /\ UNCHANGED << mutex, currentSize, dataFiles, alerts, forwards, given, sd, rw, faults,
                    trail, spoolPipeVars >>

\* Time passes: the record is older than retryAttempts * retryInterval * 2.
GrowOld(id) ==
    /\ id \in GetSpooledFiles
    /\ ~metaFiles[id].Old
    /\ metaFiles' = [metaFiles EXCEPT ![id].Old = TRUE]
    /\ UNCHANGED << mutex, currentSize, dataFiles, alerts, forwards, given, sd, rw, faults,
                    trail, spoolPipeVars >>

NextSpool ==
    \/ SdLock
    \/ SdCheck
    \/ SdWriteData
    \/ SdWriteMeta
    \/ SdAddSize
    \/ \E caller \in {"cw", "sd"} : CleanupOldFiles(caller)
    \/ RwSnapshot
    \/ RwNext
    \/ RwForward
    \/ RwRemoveMeta
    \/ RwDecLoad
    \/ RwDecStore
    \/ \E id \in 1..MaxRecords : Elapse(id)
    \/ \E id \in 1..MaxRecords : GrowOld(id)

SpecSpool == Init /\ [][NextSpool]_vars

\* The steps of the retry worker's tick, lines 275-289 and 292-373.
RetryWorker ==
    RwSnapshot \/ RwNext \/ RwForward \/ RwRemoveMeta \/ RwDecLoad \/ RwDecStore

\* The steps of a SpoolData call that has locked the mutex.
SpoolDataGoesOn == SdCheck \/ SdWriteData \/ SdWriteMeta \/ SdAddSize

\* The spool with its two workers scheduled fairly: the tickers of
\* retryWorker and cleanupWorker (lines 278-287, 379-389) keep firing, a
\* tick or a SpoolData call that can go on does, and time passes for every
\* record.
SpecSpoolFair ==
    /\ SpecSpool
    /\ WF_vars(SpoolDataGoesOn)
    /\ WF_vars(RetryWorker)
    /\ WF_vars(CleanupOldFiles("cw"))
    /\ \A id \in 1..MaxRecords : WF_vars(Elapse(id)) /\ WF_vars(GrowOld(id))

(***************************************************************************)
(* SpecMain: the pipeline under main's shutdown sequence, main.go lines    *)
(* 151-194.  After the signal main launches SpoolingService.Stop,          *)
(* Listener.Stop and apiServer.Stop, each in a goroutine of its own, and   *)
(* waits for its WaitGroup or for the 30 s deadline.  The WaitGroup counts *)
(* the API server and the goroutine that called Listener.Start, which      *)
(* returned when the listeners were started.                               *)
(***************************************************************************)
mainPipeVars == << lpc, nread, chan, chanClosed, nextId, lquit, fquit, stats,
                   batches, bpc, bctx, timerLeft, mutex, currentSize,
                   spoolEnabled, spool, sealed, lastSend, fwd, statsExt,
                   spoolExt, ledger, start, san, bp >>

Alive == sup.pc # "exited"
Signalled == sup.pc = "signalled"

\* <-sigChan, line 152
Signal ==
    /\ sup.pc = "running"
    /\ sup' = [sup EXCEPT !.pc = "signalled"]
    /\ UNCHANGED mainPipeVars

\* go svcs.SpoolingService.Stop(), lines 160-164: close(s.shutdown), on
\* which the retry worker and the cleanup worker return.
SpoolStop ==
    /\ Signalled
    /\ ~sup.spool
    /\ sup' = [sup EXCEPT !.spool = TRUE]
    /\ UNCHANGED mainPipeVars

\* go apiServer.Stop(), lines 176-178: Serve returns, wg.Done() runs.
ApiStop ==
    /\ Signalled
    /\ ~sup.api
    /\ sup' = [sup EXCEPT !.api = TRUE]
    /\ UNCHANGED mainPipeVars

\* The select of lines 187-192 and the return of main: done is closed once
\* the WaitGroup is at zero, the deadline can expire at any time.
MainExit ==
    /\ Signalled
    /\ \E case \in {"graceful", "timeout"} :
          /\ case = "graceful" => sup.api
          /\ sup' = [sup EXCEPT !.pc = "exited", !.report = case]
    /\ UNCHANGED mainPipeVars

\* The goroutines of the pipeline run until the process exits;
\* Listener.Stop (lines 167-173) runs after the signal.
NextMain ==
    \/ Signal
    \/ SpoolStop
    \/ ApiStop
    \/ MainExit
    \/ Alive /\ nread < MainDatagrams /\ \E l \in Listeners : ListenerReceive(l)
    \/ Alive /\ \E l \in Listeners : ListenerProcess(l)
    \/ Signalled /\ StopListeners
    \/ Signalled /\ StopForwarder
    \/ Alive /\ BatcherRecv
    \/ Alive /\ BatcherTimer
    \/ Alive /\ BatcherQuit
    \/ Alive /\ \E key \in DOMAIN batches : SendBatch(key)
    \/ Alive /\ Tick

SpecMain == Init /\ [][NextMain]_vars

(***************************************************************************)
(* SpecSanitize: the clean-up of a datagram in processMessageWithContext,  *)
(* lines 654-660, on every datagram of up to MaxDataLen bytes over a       *)
(* space, a newline, 0x00, 0x08 and two other bytes.                       *)
(***************************************************************************)
DataBytes == {32, 10, 0, 8, 97, 98}

\* The ASCII bytes unicode.IsSpace holds for: bytes.TrimSpace strips them.
AsciiSpace == {9, 10, 11, 12, 13, 32}

\* The cutset "\x08\x00" of the second trim.
ControlCutset == {8, 0}

RECURSIVE TrimLeft(_, _)
TrimLeft(data, cutset) ==
    IF data # << >> /\ Head(data) \in cutset
    THEN TrimLeft(Tail(data), cutset) ELSE data

RECURSIVE TrimRight(_, _)
TrimRight(data, cutset) ==
    IF data # << >> /\ data[Len(data)] \in cutset
    THEN TrimRight(SubSeq(data, 1, Len(data) - 1), cutset) ELSE data

\* bytes.Trim(s, cutset)
Trim(data, cutset) == TrimRight(TrimLeft(data, cutset), cutset)

\* bytes.TrimSpace(s)
TrimSpace(data) == Trim(data, AsciiSpace)

\* payload := bytes.TrimSpace(data); payload = bytes.Trim(payload,
\* "\x08\x00"), lines 655-656.
Sanitize(data) == Trim(TrimSpace(data), ControlCutset)

Datagrams ==
    UNION { [1..n -> DataBytes] : n \in 0..MaxDataLen }

InitSanitize ==
    /\ lpc = [l \in Listeners |-> "loop"]
    /\ nread = 0
    /\ chan = << >>
    /\ chanClosed = FALSE
    /\ nextId = 1
    /\ lquit = FALSE
    /\ fquit = FALSE
    /\ stats = ZeroStats
    /\ batches = << >>
    /\ bpc = "select"
    /\ bctx = [kind |-> "none", todo |-> {}]
    /\ timerLeft = BatchTimeout
    /\ mutex = "free"
    /\ currentSize = 0
    /\ spoolEnabled = TRUE
    /\ spool = {}
    /\ sealed = << >>
    /\ lastSend = NoSend
    /\ fwd = FwdIdle
    /\ start = StartReturned
    /\ ExtRest
    /\ san \in { [NoDatagram EXCEPT !.pc = "read", !.data = d] : d \in Datagrams }

sanPipeVars == << lpc, nread, chan, chanClosed, nextId, lquit, fquit, stats,
                 batches, bpc, bctx, timerLeft, mutex, currentSize,
                 spoolEnabled, spool, sealed, lastSend, fwd, statsExt,
                 spoolExt, ledger, sup, start, bp >>

\* processMessageWithContext up to the creation of the Message, lines
\* 654-670: an empty payload returns at once.
CleanUp ==
    /\ san.pc = "read"
    /\ LET payload == Sanitize(san.data) IN
       san' = [san EXCEPT !.pc = "cleaned", !.payload = payload,
                          !.msg = (Len(payload) # 0)]
    /\ UNCHANGED sanPipeVars

\* The payload of the Message sent as a datagram of its own.
CleanUpAgain ==
    /\ san.pc = "cleaned"
    /\ san.msg
    /\ san' = [san EXCEPT !.pc = "again", !.again = Sanitize(san.payload)]
    /\ UNCHANGED sanPipeVars

NextSanitize == CleanUp \/ CleanUpAgain

SpecSanitize == InitSanitize /\ [][NextSanitize]_vars

(***************************************************************************)
(* SpecPool: the reader loops of handleMessagesForPort, lines 609-650,     *)
(* with the buffer pool.  A Message keeps the payload it was given         *)
(* (sent), the bytes its Data holds now (data), the buffer the payload     *)
(* was read into (src) and the number of reads into that buffer so far     *)
(* (use); shared says that Data is a slice of the buffer.                  *)
(***************************************************************************)
PoolDatagrams == { <<97>>, <<98>>, <<32>> }

\* A variant that keeps the slice of the buffer (rejected by C36).
MsgDataShared(payload, b, use) ==
    [src |-> b, use |-> use, sent |-> payload, data |-> payload,
     shared |-> TRUE]

\* Data: make([]byte, len(payload)); copy(msg.Data, payload), lines 663,
\* 670.
MsgData(payload, b, use) ==
    [src |-> b, use |-> use, sent |-> payload, data |-> payload,
     shared |-> FALSE]

\* The bytes of a slice of a buffer after data was read into the buffer.
Overwritten(old, data) ==
    [i \in 1..Len(old) |-> IF i <= Len(data) THEN data[i] ELSE old[i]]

\* The Messages in the channel after data was read into buffer b.
AfterReadInto(queue, b, data) ==
    [i \in 1..Len(queue) |->
        IF queue[i].shared /\ queue[i].src = b
        THEN [queue[i] EXCEPT !.data = Overwritten(@, data)]
        ELSE queue[i]]

poolPipeVars == << lpc, nread, chan, chanClosed, nextId, lquit, fquit, stats,
                   batches, bpc, bctx, timerLeft, mutex, currentSize,
                   spoolEnabled, spool, sealed, lastSend, fwd, statsExt,
                   spoolExt, ledger, sup, start, san >>

\* l.deallocateBuffer(buf) by reader r, which goes on at pc.
Deallocated(st, r, pc) ==
    [st EXCEPT !.free = @ \cup {st.held[r]}, !.held[r] = 0,
               !.put[r] = @ + 1, !.pc[r] = pc]

\* select { case <-l.quit: return; default: }, lines 611-615.
PoolQuit(r) ==
    /\ bp.pc[r] = "top"
    /\ bp.quit
    /\ bp' = [bp EXCEPT !.pc[r] = "done"]
    /\ UNCHANGED poolPipeVars

\* buf := l.allocateBuffer(), line 620: sync.Pool.Get returns a buffer of
\* the pool or one that New makes.
PoolAllocate(r) ==
    /\ bp.pc[r] = "top"
    /\ ~bp.quit
    /\ bp.reads < MaxReads
    /\ \/ \E b \in bp.free :
             bp' = [bp EXCEPT !.free = @ \ {b}, !.held[r] = b,
                              !.got[r] = @ + 1, !.pc[r] = "read"]
       \/ /\ bp.made < MaxBuffers
          /\ bp' = [bp EXCEPT !.made = @ + 1, !.held[r] = bp.made + 1,
                              !.got[r] = @ + 1, !.pc[r] = "read"]
    /\ UNCHANGED poolPipeVars

\* ReadFromUDP(buf), lines 621-645: a datagram is read into the buffer, or
\* the read times out, fails, or fails because the socket is closed; on
\* each error the buffer is put back (line 624).
PoolRead(r) ==
    /\ bp.pc[r] = "read"
    /\ LET b == bp.held[r]
           counted == [bp EXCEPT !.reads = @ + 1] IN
       IF bp.quit
       THEN bp' = Deallocated(counted, r, "done")
       ELSE \/ bp' = Deallocated(counted, r, "top")       \* timeout, error
            \/ \E data \in PoolDatagrams :
                  bp' = [counted EXCEPT !.content[b] = data,
                                        !.uses[b] = @ + 1,
                                        !.queue = AfterReadInto(@, b, data),
                                        !.pc[r] = "process"]
    /\ UNCHANGED poolPipeVars

\* l.processMessageWithContext(buf[:readLen], ...) and
\* l.deallocateBuffer(buf), lines 647-648: an empty payload returns, a
\* Message is sent to the channel or dropped when the channel is full.
PoolProcess(r) ==
    /\ bp.pc[r] = "process"
    /\ LET b == bp.held[r]
           payload == Sanitize(bp.content[b])
           msg == MsgData(payload, b, bp.uses[b])
           done == Deallocated(bp, r, "top") IN
       bp' = IF Len(payload) # 0 /\ Len(bp.queue) < PoolChanCap
             THEN [done EXCEPT !.queue = Append(@, msg)]
             ELSE done
    /\ UNCHANGED poolPipeVars

\* l.Stop, lines 587-595: close(l.quit) and the sockets are closed.
PoolStop ==
    /\ ~bp.quit
    /\ bp' = [bp EXCEPT !.quit = TRUE]
    /\ UNCHANGED poolPipeVars

NextPool ==
    \/ \E r \in Readers : PoolQuit(r)
    \/ \E r \in Readers : PoolAllocate(r)
    \/ \E r \in Readers : PoolRead(r)
    \/ \E r \in Readers : PoolProcess(r)
    \/ PoolStop

SpecPool == Init /\ [][NextPool]_vars

(***************************************************************************)
(* SpecStart: Listener.Start, lines 534-581, port by port, with the reader *)
(* loops it has launched already running beside it.  A reader loop that    *)
(* is not launched yet is at "new", and so is the batcher.                 *)
(***************************************************************************)
InitStart ==
    /\ lpc = [l \in Listeners |-> "new"]
    /\ nread = 0
    /\ chan = << >>
    /\ chanClosed = FALSE
    /\ nextId = 1
    /\ lquit = FALSE
    /\ fquit = FALSE
    /\ stats = ZeroStats
    /\ batches = << >>
    /\ bpc = "new"
    /\ bctx = [kind |-> "none", todo |-> {}]
    /\ timerLeft = BatchTimeout
    /\ mutex = "free"
    /\ currentSize = 0
    /\ spoolEnabled = TRUE
    /\ spool = {}
    /\ sealed = << >>
    /\ lastSend = NoSend
    /\ fwd = FwdIdle
    /\ start = StartNew
    /\ san = NoDatagram
    /\ ExtRest

startPipeVars == << chan, chanClosed, nextId, stats, batches, bctx, timerLeft,
                    mutex, currentSize, spoolEnabled, spool, sealed, lastSend,
                    fwd, statsExt, spoolExt, ledger, sup, san, bp >>

\* l.Stop() called by Start, lines 584-606: quit is closed, the sockets
\* opened so far are closed, Forwarder.Stop closes its quit channel, and
\* l.wg.Wait() waits for the reader loops launched so far.  A loop that is
\* past its read has a datagram left to process.
StopInStart(failed) ==
    /\ lquit' = TRUE
    /\ fquit' = TRUE
    /\ \E inflight \in SUBSET { l \in Listeners : lpc[l] = "loop" } :
          /\ nread + Cardinality(inflight) <= MaxDatagrams
          /\ nread' = nread + Cardinality(inflight)
          /\ lpc' = [l \in Listeners |->
                        IF l \in inflight THEN "got"
                        ELSE IF lpc[l] = "loop" THEN "done" ELSE lpc[l]]
    /\ start' = [start EXCEPT !.pc = "stopping", !.failed = @ \cup failed]
    /\ UNCHANGED << bpc, startPipeVars >>

\* portListener.conn, err = net.ListenUDP("udp", portListener.addr),
\* lines 547-552.
StartListen ==
    /\ start.pc = "listen"
    /\ \/ /\ start' = [start EXCEPT !.pc = "setbuf"]
          /\ UNCHANGED << lpc, nread, lquit, fquit, bpc, startPipeVars >>
       \/ StopInStart({})

\* portListener.conn.SetReadBuffer(...), lines 554-558: on an error the
\* socket is closed, l.Stop() is called and Start returns the error.
StartSetReadBuffer ==
    /\ start.pc = "setbuf"
    /\ \/ /\ start' = [start EXCEPT !.pc = "launch"]
          /\ UNCHANGED << lpc, nread, lquit, fquit, bpc, startPipeVars >>
       \/ StopInStart({start.i})

\* go l.handleMessagesForPort(pl), lines 565-569, and the next port.
StartLaunch ==
    /\ start.pc = "launch"
    /\ lpc' = [lpc EXCEPT ![start.i] = "loop"]
    /\ start' = IF start.i < Len(UDPListenersCfg)
                THEN [start EXCEPT !.pc = "listen", !.i = @ + 1]
                ELSE [start EXCEPT !.pc = "forwarder"]
    /\ UNCHANGED << nread, lquit, fquit, bpc, startPipeVars >>

\* go l.forwarder.Start(l.batchChannel); return nil, lines 573-580.
StartForwarder ==
    /\ start.pc = "forwarder"
    /\ bpc' = "select"
    /\ start' = [start EXCEPT !.pc = "returned", !.result = "nil"]
    /\ UNCHANGED << lpc, nread, lquit, fquit, startPipeVars >>

\* l.wg.Wait() of the Stop called by Start has returned: return fmt.Errorf.
StartReturnError ==
    /\ start.pc = "stopping"
    /\ \A l \in Listeners : lpc[l] \in {"new", "done"}
    /\ start' = [start EXCEPT !.pc = "returned", !.result = "error"]
    /\ UNCHANGED << lpc, nread, lquit, fquit, bpc, startPipeVars >>

NextStart ==
    \/ StartListen
    \/ StartSetReadBuffer
    \/ StartLaunch
    \/ StartForwarder
    \/ StartReturnError
    \/ nread < MainDatagrams /\ \E l \in Listeners : ListenerReceive(l)
    \/ \E l \in Listeners : ListenerProcess(l)
    \/ BatcherRecv
    \/ BatcherTimer
    \/ \E key \in DOMAIN batches : SendBatch(key)
    \/ Tick

SpecStart == InitStart /\ [][NextStart]_vars

(***************************************************************************)
(* Properties.                                                             *)
(***************************************************************************)
Range(seq) == { seq[i] : i \in DOMAIN seq }

\* The ids of the messages enqueued so far.
Enqueued == 1..(nextId - 1)

\* How many batches given to sendBatch hold message id.
SealCount(id) == Cardinality({ i \in DOMAIN sealed : id \in Range(sealed[i].ids) })

\* Every goroutine Listener.Stop waits for has returned.
AllReturned == bpc = "done" /\ \A l \in Listeners : lpc[l] = "done"

\* Datagrams dropped because the channel was full.
Dropped == nread - (nextId - 1) - Cardinality({ l \in Listeners : lpc[l] = "got" })

\* C1: every message enqueued (and counted in messages_received) is in at
\* most one batch given to sendBatch, and in exactly one once the listeners
\* and the batcher have returned; a datagram dropped on a full channel is
\* counted in message_errors.
C1_EnqueuedSealedExactlyOnce ==
    /\ stats.UDPMessagesReceived = nextId - 1
    /\ stats.UDPMessageErrors = Dropped
    /\ \A id \in Enqueued : SealCount(id) <= 1
    /\ AllReturned => \A id \in Enqueued : SealCount(id) = 1

\* C2: a batch whose forward succeeded is not in the spool; for a batch
\* whose forward failed SpoolData has been called and has returned: the
\* batch is a spool record with its tenant, dataset and encoded bytes, or it
\* was dropped and forwarding_errors counts it.
C2_FailedBatchSpooledOrDropped ==
    /\ lastSend.result = "ok" =>
          /\ lastSend.spool = "none"
          /\ \A r \in spool : r.ID # lastSend.n
    /\ lastSend.result = "fail" =>
          \/ /\ lastSend.spool = "stored"
             /\ \E r \in spool :
                   /\ r.ID = lastSend.n
                   /\ r.TenantID = lastSend.TenantID
                   /\ r.DatasetID = lastSend.DatasetID
                   /\ r.data.lines = lastSend.ids
          \/ /\ lastSend.spool \in {"disabled", "write_error"}
             /\ \A r \in spool : r.ID # lastSend.n
             /\ stats.ForwardingErrors >= 1

\* The retried responses the claim C3 speaks of: a 5xx status or a
\* transport error.
Is5xxOrTransport(r) == r.err \/ r.status \in 500..599
Is2xx(r) == ~r.err /\ r.status \in 200..299
Is4xx(r) == ~r.err /\ r.status \in 400..499

Returned == fwd.pc \in {"ok", "fail"}

\* C3: no ForwardBatch call makes more than retry_count + 1 attempts; a call
\* all of whose attempts were answered by a 5xx or a transport error returns
\* only after exactly retry_count + 1 attempts, with a failure that carries
\* the last answer.
C3_ExhaustsRetryCountPlusOne ==
    /\ Len(fwd.log) <= RetryCount + 1
    /\ (Returned /\ \A i \in DOMAIN fwd.log : Is5xxOrTransport(fwd.log[i])) =>
          /\ fwd.pc = "fail"
          /\ Len(fwd.log) = RetryCount + 1
          /\ fwd.lastErr = << fwd.log[Len(fwd.log)] >>

C3_Witness ==
    /\ fwd.pc = "fail"
    /\ Len(fwd.log) = RetryCount + 1
    /\ \A i \in DOMAIN fwd.log : Is5xxOrTransport(fwd.log[i])
    /\ fwd.log[1].err
    /\ ~fwd.log[Len(fwd.log)].err

\* C4: an attempt answered by a 2xx or a 4xx status is the last attempt of
\* its call, which has then returned success (2xx) or failure (4xx); a 4xx
\* on the first attempt leaves exactly one attempt.
C4_NoAttemptAfter2xxOr4xx ==
    \A i \in DOMAIN fwd.log :
        /\ Is2xx(fwd.log[i]) => i = Len(fwd.log) /\ fwd.pc = "ok"
        /\ Is4xx(fwd.log[i]) => i = Len(fwd.log) /\ fwd.pc = "fail"

C4_Witness ==
    /\ fwd.pc = "fail"
    /\ Len(fwd.log) = 1
    /\ Is4xx(fwd.log[1])

\* C5: there is at most one open batch per (tenant_id, dataset_id), and
\* every message of an open batch has the batch's tenant_id and dataset_id.
C5_OneOpenBatchPerKey ==
    /\ \A j, k \in DOMAIN batches :
          (batches[j].TenantID = batches[k].TenantID
             /\ batches[j].DatasetID = batches[k].DatasetID) => j = k
    /\ \A k \in DOMAIN batches : \A m \in Range(batches[k].Messages) :
          m.TenantID = batches[k].TenantID /\ m.DatasetID = batches[k].DatasetID

\* The batcher is between two steps of its loop (or has returned).
BetweenSteps == bpc \in {"select", "done"}

\* C6: between batcher steps no open batch holds max_batch_lines or more
\* messages, and a batch sealed by the line trigger holds exactly
\* max_batch_lines messages.
C6_SealsOnTheNthLine ==
    /\ MaxBatchLines > 0
    /\ BetweenSteps => \A k \in DOMAIN batches : batches[k].LineCount < MaxBatchLines
    /\ (lastSend.trigger = "size" /\ lastSend.LineCount >= MaxBatchLines) =>
          lastSend.LineCount = MaxBatchLines

C6_Witness ==
    /\ bpc = "select"
    /\ lastSend.trigger = "size"
    /\ lastSend.LineCount = MaxBatchLines
    /\ lastSend.TotalBytes < MaxBatchBytes

C8_TimerSealsAtCreatedAtPlusTimeout ==
    /\ lastSend.trigger = "timer" =>
          /\ lastSend.age >= BatchTimeout - 1
          /\ lastSend.age <= BatchTimeout + 1
    /\ \A k \in DOMAIN batches :
          bpc = "select" => batches[k].Age <= BatchTimeout + 1

\* The batcher has been stopped and takes no further step: its loop has
\* returned, or the sendBatch call of its stop branch never returns.
StoppedAtRest ==
    \/ bpc = "done"
    \/ bpc = "cleanup_lock" /\ bctx.kind \in {"quit", "closed"}

\* How many times the open batch of key k was given to sendBatch.
TimesSent(k) ==
    Cardinality({ i \in DOMAIN sealed : sealed[i].ids = MsgIds(batches[k].Messages) })

\* C9: once the batcher has been stopped (quit closed, or the ingress
\* channel closed), no batch is given to sendBatch twice, and when the
\* batcher is at rest every batch that was open with at least one message
\* has been given to sendBatch exactly once: none is left unsent.
C9_StopSendsEveryOpenBatchOnce ==
    /\ bctx.kind \in {"quit", "closed"} =>
          \A k \in DOMAIN batches : TimesSent(k) <= 1
    /\ StoppedAtRest =>
          \A k \in DOMAIN batches :
              Len(batches[k].Messages) > 0 => TimesSent(k) = 1

\* Message ids are given in enqueue order and the channel is first-in
\* first-out, so the ids are in dequeue order.
Ascending(ids) == \A i, j \in DOMAIN ids : i < j => ids[i] < ids[j]

\* C10: the messages of the batches of one key, in the order the batches
\* are given to the forwarder, are in the order they were dequeued.
C10_PerKeyForwardOrder ==
    /\ \A i \in DOMAIN sealed : Ascending(sealed[i].ids)
    /\ \A r \in spool : Ascending(r.data.lines)
    /\ \A i, j \in DOMAIN sealed :
          (i < j /\ BatchKey(sealed[i].TenantID, sealed[i].DatasetID)
                     = BatchKey(sealed[j].TenantID, sealed[j].DatasetID)) =>
              \A a \in Range(sealed[i].ids), b \in Range(sealed[j].ids) : a < b

C10_Witness ==
    /\ Len(sealed) >= 2
    /\ sealed[1].TenantID = sealed[2].TenantID
    /\ sealed[1].DatasetID = sealed[2].DatasetID
    /\ \E i \in DOMAIN sealed : Len(sealed[i].ids) >= 2

\* Every listener is outside processMessageWithContext.
ListenersIdle == \A l \in Listeners : reg[l].pc = "idle"

\* C11: once every listener has finished processing its datagrams,
\* messages_received + message_errors is the number of datagrams read and
\* bytes_received is the sum of the payload lengths of the enqueued messages.
C11_NoCounterIncrementLost ==
    ListenersIdle =>
        /\ stats.UDPMessagesReceived + stats.UDPMessageErrors = nread
        /\ stats.BytesReceived = enqBytes

\* A listener processes a datagram in this step.
ListenerTurn(l) == ListenerReceive(l) \/ ListenerProcess(l)

SdAtRest == sd.pc \in {"idle", "cleanup_lock"}

\* C13: currentSize never exceeds max_size_bytes, and a SpoolData call that
\* found the spool over budget has returned spool-full, having created
\* neither a payload file nor a meta file.
C13_OverBudgetReturnsSpoolFull ==
    /\ currentSize <= MaxSizeBytes
    /\ (sd.over /\ SdAtRest) =>
          /\ sd.pc = "idle"
          /\ sd.result = "full"
          /\ sd.id \notin DOMAIN dataFiles
          /\ sd.id \notin DOMAIN metaFiles

\* The steps of a SpoolData call that is under way.
SdStep ==
    SdCheck \/ SdWriteData \/ SdWriteMeta \/ SdAddSize \/ CleanupOldFiles("sd")

\* C14: a SpoolData call that is under way always has a next step: it never
\* waits for ever, in particular not for the spool lock in its own cleanup.
C14_SpoolDataAlwaysReturns ==
    sd.pc # "idle" => ENABLED SdStep

\* C15: the payload file is written before the meta file, and a SpoolData
\* call that returned an error has left no file of its record on disk and
\* has not added its size to currentSize.
C15_FailedSpoolDataLeavesNoFile ==
    /\ sd.pc = "write_data" =>
          sd.id \notin DOMAIN dataFiles /\ sd.id \notin DOMAIN metaFiles
    /\ sd.pc = "write_meta" =>
          sd.id \in DOMAIN dataFiles /\ sd.id \notin DOMAIN metaFiles
    /\ (sd.pc = "idle" /\ sd.result \in {"data_error", "meta_error"}) =>
          /\ sd.id \notin DOMAIN dataFiles
          /\ sd.id \notin DOMAIN metaFiles
          /\ \A i \in DOMAIN trail :
                ~(trail[i].op = "write" /\ trail[i].id = sd.id)

\* The latest two changes of currentSize are the write of a record and,
\* on the size that write left, the removal of the same record.
WriteThenRemove ==
    /\ Len(trail) = 2
    /\ trail[1].op = "write"
    /\ trail[2].op = "remove"
    /\ trail[1].id = trail[2].id
    /\ trail[2].before = trail[1].after

\* C16: a SpoolData followed by the removal of the record it wrote leaves
\* currentSize at the value it had before the write.
C16_WriteThenRemoveRestoresSize ==
    WriteThenRemove => trail[2].after = trail[1].before

C16_Witness ==
    /\ WriteThenRemove
    /\ trail[1].before > 0
    /\ trail[1].id = MaxRecords

\* The retry worker ends a forward in this step, with a failure.
RetryForwardFailed ==
    /\ rw.pc = "forward"
    /\ rw'.pc = "next"
    /\ rw'.outcome[rw.cur] = "fwd_fail"

\* C17: after a successful forward by the retry worker neither file of the
\* record is on disk, and the worker's update of currentSize lowers it by
\* exactly the record's size, which nobody has subtracted before.
C17_RetrySuccessRemovesRecordOnce ==
    /\ [](rw.pc \in {"dec_load", "dec_store"} =>
            rw.cur \notin DOMAIN dataFiles /\ rw.cur \notin DOMAIN metaFiles)
    /\ [][RwDecStore =>
            /\ currentSize' = currentSize - rw.files[rw.cur].Size
            /\ \A i \in DOMAIN trail :
                  ~(trail[i].op = "remove" /\ trail[i].id = rw.cur)]_vars

\* C18: a forward by the retry worker that fails leaves the record's meta
\* with retry_count one higher, status retrying and last_retry now, leaves
\* both files on disk and leaves currentSize alone.
C18_RetryFailureCountsOneAttempt ==
    [][RetryForwardFailed =>
         /\ rw.cur \in DOMAIN metaFiles'
         /\ metaFiles'[rw.cur].Readable
         /\ metaFiles'[rw.cur].RetryCount = rw.files[rw.cur].RetryCount + 1
         /\ metaFiles'[rw.cur].Status = "retrying"
         /\ ~metaFiles'[rw.cur].Due
         /\ rw.cur \in DOMAIN dataFiles'
         /\ currentSize' = currentSize]_vars

\* C19: when a retry tick has ended in which the forward of a record with
\* retry_count = max_attempts - 1 failed, that record's status is failed.
C19_LastAttemptMarksFailed ==
    rw.pc = "idle" =>
        \A id \in DOMAIN rw.outcome :
            (rw.outcome[id] = "fwd_fail"
               /\ rw.files[id].RetryCount = MaxAttempts - 1
               /\ id \in GetSpooledFiles) =>
                metaFiles[id].Status = "failed"

\* C20: no record gets the max-retries alert twice, and a record that got
\* it has the status failed.
C20_MaxRetriesAlertOnce ==
    \A id \in 1..MaxRecords :
        /\ alerts[id] <= 1
        /\ (alerts[id] >= 1 /\ id \in GetSpooledFiles) =>
              metaFiles[id].Status = "failed"
        /\ (id \in GetSpooledFiles /\ metaFiles[id].Status = "failed") =>
              alerts[id] = 1

\* The record the retry worker is handing to ForwardBatch, as its meta file
\* on disk describes it, can still be retried.
ForwardedIsLive ==
    (rw.pc = "forward" /\ rw.cur \in GetSpooledFiles) =>
        /\ metaFiles[rw.cur].Status # "failed"
        /\ metaFiles[rw.cur].RetryCount < MaxAttempts

\* C21: the retry worker calls ForwardBatch only for a record that is not
\* failed and has retry_count < max_attempts, and over its lifetime a
\* record is forwarded by the retry worker at most max_attempts times.
C21_AtMostMaxAttemptsForwards ==
    /\ ForwardedIsLive
    /\ \A id \in 1..MaxRecords : forwards[id] <= MaxAttempts

\* A failed record with both files on disk that the age rule does not
\* cover yet.
FailedAndYoung(id) ==
    /\ id \in GetSpooledFiles
    /\ id \in DOMAIN dataFiles
    /\ metaFiles[id].Status = "failed"
    /\ ~metaFiles[id].Old

\* C22: no step removes the payload file or the meta file of a failed
\* record that is not yet older than max_attempts x retry_interval x 2.
C22_FailedKeptUntilAgeRule ==
    [][\A id \in 1..MaxRecords :
          FailedAndYoung(id) =>
              id \in DOMAIN dataFiles' /\ id \in DOMAIN metaFiles']_vars

\* No SpoolData call and no retry tick is under way (the cleanup is one
\* step).
SpoolAtRest == sd.pc = "idle" /\ rw.pc = "idle"

\* C23: when no spool operation is under way, every record id has both
\* its payload file and its meta file on disk, or neither.
C23_BothFilesOrNeither ==
    SpoolAtRest => DOMAIN dataFiles = DOMAIN metaFiles

\* C24: every record whose status is failed has retry_count >=
\* max_attempts.
C24_FailedImpliesMaxAttempts ==
    \A id \in GetSpooledFiles :
        metaFiles[id].Status = "failed" =>
            metaFiles[id].RetryCount >= MaxAttempts

C24_Witness ==
    \E id \in GetSpooledFiles :
        /\ metaFiles[id].Status = "failed"
        /\ rw.pc = "next"
        /\ rw.cur = id
        /\ rw.outcome[id] = "marked"

\* C25: the size of a record is not subtracted from current_size twice:
\* the latest two changes of current_size are never two removals of the
\* same record.
C25_SizeSubtractedOncePerRecord ==
    ~(/\ Len(trail) = 2
      /\ trail[1].op = "remove"
      /\ trail[2].op = "remove"
      /\ trail[1].id = trail[2].id)

\* C26: while a removal of a record is under way there is no state in
\* which its meta file is on disk and its payload file is deleted already.
C26_PayloadNotDeletedBeforeMeta ==
    rw.pc = "remove_meta" =>
        ~(rw.cur \in DOMAIN metaFiles /\ rw.cur \notin DOMAIN dataFiles)

\* The retry worker reads, or tries to read, the payload of a record in
\* this step.
RetryReadsPayload ==
    /\ rw.pc = "next"
    /\ rw'.todo # rw.todo
    /\ rw'.outcome[rw'.cur] \in {"forwarding", "read_error"}

\* C27: the retry worker reads no payload file and rewrites no meta file
\* of a record that has been deleted.
C27_RetryTouchesNoDeletedRecord ==
    [][/\ RetryReadsPayload =>
            rw'.cur \in DOMAIN dataFiles /\ rw'.cur \in DOMAIN metaFiles
       /\ RetryForwardFailed =>
            rw.cur \in DOMAIN dataFiles /\ rw.cur \in DOMAIN metaFiles]_vars

\* C28: the batch the retry worker passes to ForwardBatch has the body
\* and the tenant_id and dataset_id that SpoolData was given when it
\* wrote the record, however many retries of the record have failed.
C28_ReforwardUsesSpooledPayload ==
    rw.pc = "forward" =>
        /\ rw.batch.Data = given[rw.cur].Data
        /\ rw.batch.TenantID = given[rw.cur].TenantID
        /\ rw.batch.DatasetID = given[rw.cur].DatasetID

C28_Witness ==
    /\ rw.pc = "forward"
    /\ rw.cur = MaxRecords
    /\ rw.files[rw.cur].RetryCount = MaxAttempts - 1
    /\ forwards[rw.cur] = MaxAttempts - 1
    /\ given[1] # given[MaxRecords]

\* No datagram is in a listener's hands or in the channel, no batch is
\* open and no sendBatch call is under way.
Quiescent ==
    /\ \A l \in Listeners : lpc[l] # "got"
    /\ chan = << >>
    /\ \/ bpc = "done"
       \/ bpc = "select" /\ NonEmptyBatches(batches) = {}

\* The sum of size over the records of the spool.
RECURSIVE SpooledBytes(_)
SpooledBytes(records) ==
    IF records = {} THEN 0
    ELSE LET r == CHOOSE r \in records : TRUE
         IN r.Size + SpooledBytes(records \ {r})

\* C29: at quiescence the total_bytes of the forwarded batches, the size
\* of the spooled pending records and the payload bytes of the batches
\* dropped add up to bytes_received.
C29_ByteConservation ==
    Quiescent =>
        ledger.forwarded
          + SpooledBytes({ r \in spool : r.Status = "pending" })
          + ledger.dropped
        = stats.BytesReceived

\* The batcher has sealed and forwarded its open batches and returned.
BatcherDrained == bpc = "done"

\* C30: the spool workers are stopped only when the listener sockets are
\* closed and the batcher has finished draining: never while the batcher
\* holds an open batch or has a forward in flight.
C30_SpoolStopsAfterBatcherDrained ==
    sup.spool => lquit /\ BatcherDrained

\* Every listener loop has returned.
ListenersReturned == \A l \in Listeners : lpc[l] = "done"

\* C31: when main has reported a graceful stop and exited, all listener
\* loops have returned and the batcher has sealed and forwarded its open
\* batches; an exit before that is the exit on the expired deadline.
C31_GracefulStopWaitsForDrain ==
    (sup.pc = "exited" /\ sup.report = "graceful") =>
        ListenersReturned /\ BatcherDrained

\* C32: when SetReadBuffer has failed for a port and Listener.Start has
\* returned, it has returned nil and has started every reader loop, that
\* port's included, and the batcher.
C32_ReadBufferFailureNotFatal ==
    (start.pc = "returned" /\ start.failed # {}) =>
        /\ start.result = "nil"
        /\ \A l \in Listeners : lpc[l] # "new"
        /\ bpc # "new"

\* The bytes the clean-up is to strip from both ends of a payload.
Stripped == AsciiSpace \cup ControlCutset

\* C33: the payload of a Message is not empty and neither begins nor ends
\* with a whitespace byte, 0x00 or 0x08; the clean-up of such a payload
\* returns it unchanged; a datagram whose payload is empty makes no
\* Message.
C33_PayloadIsTrimmed ==
    /\ (san.pc \in {"cleaned", "again"} /\ san.msg) =>
          /\ san.payload # << >>
          /\ Head(san.payload) \notin Stripped
          /\ san.payload[Len(san.payload)] \notin Stripped
    /\ san.pc = "again" => san.again = san.payload
    /\ (san.pc = "cleaned" /\ san.payload = << >>) => ~san.msg

\* A sendBatch call of the case being served has been made in this step.
SendBatchCalled == bpc = "send" /\ Len(sealed') = Len(sealed) + 1

\* The open batches other than those of `keys` are what they were.
OthersUnchanged(keys) ==
    /\ DOMAIN batches' = DOMAIN batches \ keys
    /\ \A k \in DOMAIN batches' : batches'[k] = batches[k]

\* C34: the timer case seals every non-empty open batch and removes each
\* from the open set, and when it is over no non-empty batch is open; the
\* line or byte trigger seals the batch of the triggering key only, removes
\* it, leaves the other open batches unchanged and restarts the timer with
\* the full batch timeout.
C34_TimerSealsAllTriggerSealsOne ==
    [][/\ (bpc = "select" /\ bpc' = "send" /\ bctx'.kind = "timer") =>
            bctx'.todo = NonEmptyBatches(batches)
       /\ (SendBatchCalled /\ bctx.kind = "timer") =>
            /\ \E key \in bctx.todo :
                  /\ lastSend'.ids = MsgIds(batches[key].Messages)
                  /\ OthersUnchanged({key})
                  /\ bctx'.todo = bctx.todo \ {key}
            /\ IF bctx'.todo = {}
               THEN /\ bpc' = "select"
                    /\ NonEmptyBatches(batches') = {}
                    /\ timerLeft' = BatchTimeout
               ELSE bpc' = "send"
       /\ (SendBatchCalled /\ bctx.kind = "size") =>
            /\ \E key \in bctx.todo :
                  /\ bctx.todo = {key}
                  /\ lastSend'.ids = MsgIds(batches[key].Messages)
                  /\ OthersUnchanged({key})
            /\ bpc' = "select"
            /\ timerLeft' = BatchTimeout
      ]_vars

\* What the meta files hold, the passing of time left out.
Written(metas) ==
    [id \in DOMAIN metas |-> [metas[id] EXCEPT !.Due = FALSE, !.Old = FALSE]]

\* This step has changed the spool directory or currentSize.
SpoolMutated ==
    \/ dataFiles' # dataFiles
    \/ Written(metaFiles') # Written(metaFiles)
    \/ currentSize' # currentSize

\* SpoolData and the retry worker are both between two of their changes
\* of the spool.
TwoMutationsInProgress ==
    /\ sd.pc \in {"write_meta", "add_size"}
    /\ rw.pc \in {"remove_meta", "dec_load", "dec_store"}

\* C35: a step that changes the spool directory or currentSize is taken by
\* the holder of the spool mutex (SpoolData between Lock and Unlock, or
\* cleanupOldFiles, which locks and unlocks within its step), and no two
\* such changes are in progress at the same time.
C35_MutationsHoldTheMutex ==
    [][/\ SpoolMutated =>
            \/ mutex = "SpoolData" /\ sd' # sd /\ rw' = rw
            \/ mutex = "free" /\ sd' = sd /\ rw' = rw
       /\ ~TwoMutationsInProgress
      ]_vars

\* C36: a reader at the top of its loop, or returned, holds no buffer and
\* has put back every buffer it got; a reader inside the loop holds one
\* buffer, got once and not yet put, which is not in the pool and is held
\* by no other reader; the Data of a Message in the channel is the payload
\* it was given, whatever was read into the buffer since.
C36_BufferReleasedOncePayloadPrivate ==
    /\ \A r \in Readers :
          IF bp.pc[r] \in {"top", "done"}
          THEN bp.held[r] = 0 /\ bp.got[r] = bp.put[r]
          ELSE /\ bp.held[r] \in 1..bp.made
               /\ bp.got[r] = bp.put[r] + 1
               /\ bp.held[r] \notin bp.free
               /\ \A q \in Readers \ {r} : bp.held[q] # bp.held[r]
    /\ \A i \in DOMAIN bp.queue : bp.queue[i].data = bp.queue[i].sent

\* A Message is in the channel, its buffer has been used for a datagram
\* with other bytes and put back, and a reader has returned over the closed
\* socket.
C36_Witness ==
    /\ \E i \in DOMAIN bp.queue :
          LET m == bp.queue[i] IN
          /\ bp.uses[m.src] > m.use
          /\ Sanitize(bp.content[m.src]) # m.sent
          /\ Sanitize(bp.content[m.src]) # << >>
          /\ m.src \in bp.free
    /\ \E r \in Readers : bp.pc[r] = "done" /\ bp.put[r] > 0

\* C37: every HTTP attempt of a ForwardBatch call, the first and each
\* retry, has the complete batch.Data to send as its request body.
C37_EveryAttemptSendsWholeBody ==
    \A i \in DOMAIN fwd.offered : fwd.offered[i] = BodyLen

\* C38: every message of a batch given to sendBatch has the tenant_id and
\* the dataset_id of the batch, also when the identifiers contain ':'.
C38_SealedBatchIsOneTenantDataset ==
    [][Len(sealed') = Len(sealed) + 1 =>
          \A key \in bctx.todo :
             MsgIds(batches[key].Messages) = lastSend'.ids =>
                \A m \in Range(batches[key].Messages) :
                   /\ m.TenantID = lastSend'.TenantID
                   /\ m.DatasetID = lastSend'.DatasetID
      ]_vars

\* C39: when no spool operation is under way, currentSize is the sum of
\* the size fields of the records of the spool, and it is never negative.
C39_CurrentSizeIsSumOfRecords ==
    /\ currentSize >= 0
    /\ SpoolAtRest => currentSize = SumSizes(metaFiles, GetSpooledFiles)

\* The record is one the retry worker retries.
Retried(id) ==
    /\ id \in GetSpooledFiles
    /\ metaFiles[id].Status \in {"pending", "retrying"}

\* C40: with the retry worker and the cleanup worker scheduled fairly,
\* every record of the spool that is pending or retrying is eventually
\* deleted or marked failed.
C40_RecordEventuallyLeavesRetry ==
    \A id \in 1..MaxRecords : Retried(id) ~> ~Retried(id)

====
